---- MODULE Spec2Model ----
(***************************************************************************)
(* Record validation and quarantine pipeline of de-intern-2024-project:    *)
(*   src/transform/data_quality.py   (DataQualityChecker)                  *)
(*   src/transform/glue_etl_job.py   (the Glue job: main and its steps)    *)
(*                                                                         *)
(* Units.  Spark doubles are held as scaled integers:                      *)
(*   money (fare, tip, total, tolls, extra, mta_tax)  in cents             *)
(*   trip_distance                                    in 1/100 mile        *)
(*   timestamps                                       in seconds           *)
(*   trip_duration_minutes                            in 1/60 minute       *)
(*   tip_percentage                                   in 1/100 percent     *)
(* SQL NULL is the empty tuple, a non-null value v is <<v>>, and column    *)
(* expressions follow Spark's three-valued logic.                          *)
(***************************************************************************)
EXTENDS Integers, Sequences, FiniteSets, TLC

VARIABLES
    table,            \* the rows of the input batch of this behaviour
    quality_metrics,  \* DataQualityChecker.quality_metrics
    last,             \* the last call on the checker: its input and what it returned
    runs,             \* number of calls made on the checker
    dlq,              \* the quarantine sink: destination path -> rows stored there
    dlq_writes,       \* number of write calls the quarantine sink received
    out,              \* the outcome of the last quarantine-writer call
    now,              \* the wall clock, in months since the epoch of the model
    pc,               \* glue_etl_job.main: the step it is at
    job,              \* glue_etl_job.main: its locals and the effects it had
    invocations,      \* invocations of the job that share a sink: run_id and quarantine write of each
    handled           \* s3_notification: the last event handled, the response and the log lines

vars == <<table, quality_metrics, last, runs, dlq, dlq_writes, out, now, pc, job, invocations, handled>>

----------------------------------------------------------------------------
(* Bounds of the model *)

\* largest number of rows in an input batch
MaxBatch == 2
\* largest number of calls made on one DataQualityChecker
MaxRuns == 2
\* largest number of quarantine-writer calls in one behaviour
MaxWrites == 2
\* largest number of invocations of the job on one sink
MaxInvocations == 2
\* last month the wall clock reaches (months are counted from January of YearZero)
MaxClock == 1
MaxRecords == 2       \* records in one S3 event
MaxHandled == 2       \* invocations of the notification handler

----------------------------------------------------------------------------
(* Spark column values and three-valued logic *)

NULL == <<>>
T3 == <<TRUE>>
F3 == <<FALSE>>

IsNull(v) == IF v = NULL THEN T3 ELSE F3

And3(a, b) ==
    IF a = F3 \/ b = F3 THEN F3
    ELSE IF a = NULL \/ b = NULL THEN NULL
    ELSE T3

Or3(a, b) ==
    IF a = T3 \/ b = T3 THEN T3
    ELSE IF a = NULL \/ b = NULL THEN NULL
    ELSE F3

Not3(a) == IF a = NULL THEN NULL ELSE <<~a[1]>>

\* comparisons of a nullable column value with a literal
GeLit(v, c) == IF v = NULL THEN NULL ELSE <<v[1] >= c>>
LeLit(v, c) == IF v = NULL THEN NULL ELSE <<v[1] <= c>>
GtLit(v, c) == IF v = NULL THEN NULL ELSE <<v[1] > c>>
\* comparison of two nullable column values
GtCol(v, w) == IF v = NULL \/ w = NULL THEN NULL ELSE <<v[1] > w[1]>>

----------------------------------------------------------------------------
(* DataFrames: a set of columns and a set of rows.  A row carries every    *)
(* field; a field whose column is not in the frame is NULL.  The field id  *)
(* is the row's identity, it is no column.                                 *)

SourceColumns ==
    {"tpep_pickup_datetime", "tpep_dropoff_datetime", "passenger_count",
     "trip_distance", "fare_amount", "tip_amount", "total_amount",
     "tolls_amount", "extra", "mta_tax"}

DerivedColumns == {"trip_duration_minutes", "tip_percentage"}

\* the other columns add_derived_columns adds
MetadataColumns ==
    {"quality_check_timestamp", "year", "month", "processed_at", "etl_job_name"}

RejectColumns == {"failure_reason", "failed_at"}

DF(cols, rows) == [cols |-> cols, rows |-> rows]

Count(df) == Cardinality(df.rows)

Ids(df) == {r.id : r \in df.rows}

\* df.filter(c), c the value of the condition on each row: the rows on which
\* it is TRUE (not FALSE, not NULL)
Filter(df, c) == DF(df.cols, {r \in df.rows : c[r] = T3})

\* df.filter(~c)
FilterNot(df, c) == DF(df.cols, {r \in df.rows : Not3(c[r]) = T3})

\* .withColumn('failure_reason', F.lit(reason)).withColumn('failed_at', F.current_timestamp())
WithFailure(df, reason, ts) ==
    DF(df.cols \cup RejectColumns,
       {[r EXCEPT !.failure_reason = <<reason>>, !.failed_at = <<ts>>] : r \in df.rows})

\* spark.createDataFrame([], df.schema)
EmptyLike(df) == DF(df.cols, {})

----------------------------------------------------------------------------
(* The derived-column step of the job, which the tests of the checker also *)
(* apply to their fixtures before validate_trip_duration,                  *)
(* validate_tip_percentage and run_all_checks.                             *)

\* a faulty variant, for the sensitivity of the property: a missing instant
\* gives a duration of 0
trip_duration_minutes_or_zero(r) ==
    IF r.tpep_dropoff_datetime = NULL \/ r.tpep_pickup_datetime = NULL THEN <<0>>
    ELSE <<r.tpep_dropoff_datetime[1] - r.tpep_pickup_datetime[1]>>

\* 1/60 minute per second: (unix_timestamp(dropoff) - unix_timestamp(pickup)) / 60.0
\* is held as the difference in seconds
trip_duration_minutes(r) ==
    IF r.tpep_dropoff_datetime = NULL \/ r.tpep_pickup_datetime = NULL THEN NULL
    ELSE <<r.tpep_dropoff_datetime[1] - r.tpep_pickup_datetime[1]>>

\* F.when(fare_amount > 0, tip_amount / fare_amount * 100.0).otherwise(0.0):
\* otherwise() also takes the rows whose condition is NULL
tip_percentage(r) ==
    IF GtLit(r.fare_amount, 0) = T3
    THEN IF r.tip_amount = NULL THEN NULL
         ELSE <<(r.tip_amount[1] * 10000) \div r.fare_amount[1]>>
    ELSE <<0>>

\* the two columns the rules of the checker read
with_trip_and_tip(df) ==
    DF(df.cols \cup DerivedColumns,
       {[r EXCEPT !.trip_duration_minutes = trip_duration_minutes(r),
                  !.tip_percentage = tip_percentage(r)] : r \in df.rows})

\* F.year / F.month of a pickup instant.  The instants of the fixtures are
\* seconds after 2023-01-01 12:00:00 and lie within the eight weeks after it.
DayOfJanuary(v) == 1 + (v + 43200) \div 86400
F_year(v) == IF v = NULL THEN NULL ELSE <<2023>>
F_month(v) == IF v = NULL THEN NULL ELSE IF DayOfJanuary(v[1]) <= 31 THEN <<1>> ELSE <<2>>

\* add_derived_columns at instant ts: F.current_timestamp() is the instant at
\* which the step runs
add_derived_columns(df, ts) ==
    LET d == with_trip_and_tip(df) IN
    DF(d.cols \cup MetadataColumns,
       {[r EXCEPT !.quality_check_timestamp = <<ts>>,
                  !.year = F_year(r.tpep_pickup_datetime),
                  !.month = F_month(r.tpep_pickup_datetime),
                  !.processed_at = <<ts>>,
                  !.etl_job_name = <<"job-process-taxi-data">>] : r \in d.rows})

----------------------------------------------------------------------------
(* Input batches.  A batch is built from the rows below, which are the     *)
(* fixtures of tests/test_data_quality.py (clean_data, data_with_nulls,    *)
(* data_with_range_violations, data_with_datetime_issues, the duration and *)
(* tip fixtures) and rows with a NULL in a field that is not required.     *)

CleanRow ==
    [id |-> 0,
     tpep_pickup_datetime |-> <<0>>, tpep_dropoff_datetime |-> <<900>>,
     passenger_count |-> <<2>>, trip_distance |-> <<250>>,
     fare_amount |-> <<1250>>, tip_amount |-> <<200>>, total_amount |-> <<1550>>,
     tolls_amount |-> <<50>>, extra |-> <<50>>, mta_tax |-> <<50>>,
     trip_duration_minutes |-> NULL, tip_percentage |-> NULL,
     quality_check_timestamp |-> NULL, year |-> NULL, month |-> NULL,
     processed_at |-> NULL, etl_job_name |-> NULL,
     failure_reason |-> NULL, failed_at |-> NULL, run_id |-> NULL]

FixtureRows ==
    << CleanRow,
       \* a required field is NULL
       [CleanRow EXCEPT !.tpep_pickup_datetime = NULL],
       \* passenger_count = 0
       [CleanRow EXCEPT !.passenger_count = <<0>>],
       \* trip_distance = 150 miles
       [CleanRow EXCEPT !.trip_distance = <<15000>>],
       \* a field that is range-checked but not required is NULL
       [CleanRow EXCEPT !.tip_amount = NULL],
       \* dropoff before pickup
       [CleanRow EXCEPT !.tpep_pickup_datetime = <<3600>>, !.tpep_dropoff_datetime = <<1800>>],
       \* a 30 second trip
       [CleanRow EXCEPT !.tpep_dropoff_datetime = <<30>>],
       \* a 150% tip
       [CleanRow EXCEPT !.tip_amount = <<1875>>],
       \* several rules fail: NULL passenger_count and NULL total_amount,
       \* 150 miles, dropoff before pickup
       [CleanRow EXCEPT !.passenger_count = NULL, !.total_amount = NULL,
                        !.trip_distance = <<15000>>,
                        !.tpep_pickup_datetime = <<3600>>, !.tpep_dropoff_datetime = <<1800>>],
       \* NULL tolls_amount and dropoff at the instant of pickup
       [CleanRow EXCEPT !.tolls_amount = NULL,
                        !.tpep_pickup_datetime = <<3600>>, !.tpep_dropoff_datetime = <<3600>>],
       \* every bound met exactly: 6 passengers, 0.1 mile, no tolls, a trip of
       \* one minute, a tip of 100% of the fare
       [CleanRow EXCEPT !.passenger_count = <<6>>, !.trip_distance = <<10>>,
                        !.tolls_amount = <<0>>, !.tpep_dropoff_datetime = <<60>>,
                        !.tip_amount = <<1250>>],
       \* fare_amount = 0
       [CleanRow EXCEPT !.fare_amount = <<0>>] >>

\* a batch of n rows: the rows are told apart by id, and a batch is a bag, so
\* the fixtures are taken in non-decreasing order
BatchesOfSize(n) ==
    { {[FixtureRows[s[i]] EXCEPT !.id = i] : i \in 1..n} :
        s \in {t \in [1..n -> 1..Len(FixtureRows)] :
                 \A i \in 1..n : \A j \in 1..n : i <= j => t[i] <= t[j]} }

Batches == UNION {BatchesOfSize(n) : n \in 0..MaxBatch}

\* the frame a caller hands to the checker: the source columns, with or
\* without the derived columns
SourceFrame(rows) == DF(SourceColumns, rows)
DerivedFrame(rows) == with_trip_and_tip(SourceFrame(rows))
Frames(rows) == {SourceFrame(rows), DerivedFrame(rows)}


----------------------------------------------------------------------------
(* DataQualityChecker: configuration                                       *)

REQUIRED_FIELDS ==
    {"tpep_pickup_datetime", "tpep_dropoff_datetime", "passenger_count",
     "trip_distance", "fare_amount", "total_amount"}

\* field -> <<min, max>>, in the units of the field
NUMERIC_RANGES ==
    [passenger_count |-> <<1, 6>>,
     trip_distance   |-> <<10, 10000>>,
     fare_amount     |-> <<1, 50000>>,
     total_amount    |-> <<1, 100000>>,
     tip_amount      |-> <<0, 20000>>,
     tolls_amount    |-> <<0, 10000>>,
     extra           |-> <<0, 1000>>,
     mta_tax         |-> <<0, 100>>]

\* the defaults of validate_trip_duration (1.0 and 300.0 minutes) and of
\* validate_tip_percentage (100.0 percent), in the units of their columns
min_minutes == 60
max_minutes == 18000
max_percentage == 10000

\* self.quality_metrics = {}
NoMetrics == [k \in {} |-> 0]

\* self.quality_metrics[k] = v
SetMetric(qm, k, v) == [x \in DOMAIN qm \cup {k} |-> IF x = k THEN v ELSE qm[x]]

MetricSum(qm) ==
    LET RECURSIVE Sum(_)
        Sum(K) == IF K = {} THEN 0
                  ELSE LET k == CHOOSE x \in K : TRUE IN qm[k] + Sum(K \ {k})
    IN Sum(DOMAIN qm)

\* what a rule method returns and the metrics it leaves behind
RuleResult(valid, invalid, qm) == [valid |-> valid, invalid |-> invalid, qm |-> qm]

\* invalid_count = invalid_df.count(); self.quality_metrics[key] = invalid_count;
\* return valid_df, invalid_df
CountedResult(valid, invalid, qm, key) ==
    RuleResult(valid, invalid, SetMetric(qm, key, Count(invalid)))

----------------------------------------------------------------------------
(* DataQualityChecker: the conditions of the rules, as column expressions  *)

\* a faulty variant, for the sensitivity of the property: the AND of the
\* isNull() tests in place of their OR
null_condition_all_null(cols, r) ==
    IF \A f \in REQUIRED_FIELDS \cap cols : IsNull(r[f]) = T3 THEN T3 ELSE F3

\* null_condition: the OR of F.col(field).isNull() over the required fields
\* that are columns of the frame
null_condition(cols, r) ==
    IF \E f \in REQUIRED_FIELDS \cap cols : IsNull(r[f]) = T3 THEN T3 ELSE F3

\* a faulty variant, for the sensitivity of the property: the bounds are
\* exclusive
in_range_exclusive(r, f) ==
    And3(GtLit(r[f], NUMERIC_RANGES[f][1]), Not3(GeLit(r[f], NUMERIC_RANGES[f][2])))

\* (F.col(field) >= min_val) & (F.col(field) <= max_val)
in_range(r, f) ==
    And3(GeLit(r[f], NUMERIC_RANGES[f][1]), LeLit(r[f], NUMERIC_RANGES[f][2]))

\* range_condition: F.lit(True) & the conjunction over the configured fields
\* that are columns of the frame
range_condition(cols, r) ==
    LET F == DOMAIN NUMERIC_RANGES \cap cols IN
    IF \E f \in F : in_range(r, f) = F3 THEN F3
    ELSE IF \E f \in F : in_range(r, f) = NULL THEN NULL
    ELSE T3

\* a faulty variant, for the sensitivity of the property: dropoff not before
\* pickup
datetime_condition_not_before(r) ==
    Not3(GtCol(r.tpep_pickup_datetime, r.tpep_dropoff_datetime))

datetime_condition(r) == GtCol(r.tpep_dropoff_datetime, r.tpep_pickup_datetime)

duration_condition(r) ==
    And3(GeLit(r.trip_duration_minutes, min_minutes),
         LeLit(r.trip_duration_minutes, max_minutes))

tip_condition(r) ==
    And3(GeLit(r.tip_percentage, 0), LeLit(r.tip_percentage, max_percentage))

----------------------------------------------------------------------------
(* DataQualityChecker: the rule methods.  Each takes the frame, the        *)
(* metrics before the call and the current timestamp.                      *)

check_null_values(df, qm, ts) ==
    LET cond(r) == null_condition(df.cols, r)
        invalid_df == WithFailure(Filter(df, [r \in df.rows |-> cond(r)]), "null_in_required_field", ts)
        valid_df == FilterNot(df, [r \in df.rows |-> cond(r)])
    IN IF REQUIRED_FIELDS \cap df.cols = {}
       THEN RuleResult(df, EmptyLike(df), qm)
       ELSE CountedResult(valid_df, invalid_df, qm, "null_violations")

validate_numeric_ranges(df, qm, ts) ==
    LET cond(r) == range_condition(df.cols, r)
        invalid_df == WithFailure(FilterNot(df, [r \in df.rows |-> cond(r)]), "numeric_range_violation", ts)
        valid_df == Filter(df, [r \in df.rows |-> cond(r)])
    IN CountedResult(valid_df, invalid_df, qm, "range_violations")

validate_datetime_logic(df, qm, ts) ==
    LET invalid_df == WithFailure(FilterNot(df, [r \in df.rows |-> datetime_condition(r)]),
                                  "invalid_datetime_sequence", ts)
        valid_df == Filter(df, [r \in df.rows |-> datetime_condition(r)])
    IN IF ~ ({"tpep_pickup_datetime", "tpep_dropoff_datetime"} \subseteq df.cols)
       THEN RuleResult(df, EmptyLike(df), qm)
       ELSE CountedResult(valid_df, invalid_df, qm, "datetime_violations")

validate_trip_duration(df, qm, ts) ==
    LET invalid_df == WithFailure(FilterNot(df, [r \in df.rows |-> duration_condition(r)]),
                                  "invalid_trip_duration", ts)
        valid_df == Filter(df, [r \in df.rows |-> duration_condition(r)])
    IN IF "trip_duration_minutes" \notin df.cols
       THEN RuleResult(df, EmptyLike(df), qm)
       ELSE CountedResult(valid_df, invalid_df, qm, "duration_violations")

validate_tip_percentage(df, qm, ts) ==
    LET invalid_df == WithFailure(FilterNot(df, [r \in df.rows |-> tip_condition(r)]),
                                  "invalid_tip_percentage", ts)
        valid_df == Filter(df, [r \in df.rows |-> tip_condition(r)])
    IN IF "tip_percentage" \notin df.cols
       THEN RuleResult(df, EmptyLike(df), qm)
       ELSE CountedResult(valid_df, invalid_df, qm, "tip_percentage_violations")

\* if invalid.count() > 0: invalid_dfs.append(invalid)
AppendIfAny(invalid_dfs, invalid) ==
    IF Count(invalid) > 0 THEN Append(invalid_dfs, invalid) ELSE invalid_dfs

\* a call of a rule method: the frame it was given and what it returned
RuleCalled(rule, df, res) ==
    [rule |-> rule, input |-> df, valid |-> res.valid, invalid |-> res.invalid]

\* a faulty variant, for the sensitivity of the property: the step leaves the
\* records the rule rejected in the frame it hands on
run_rule_keeping_rejected(rule, acc, ts) ==
    LET res == CASE rule = "check_null_values" ->
                      check_null_values(acc.df, acc.qm, ts)
                 [] rule = "validate_numeric_ranges" ->
                      validate_numeric_ranges(acc.df, acc.qm, ts)
                 [] rule = "validate_datetime_logic" ->
                      validate_datetime_logic(acc.df, acc.qm, ts)
                 [] rule = "validate_trip_duration" ->
                      validate_trip_duration(acc.df, acc.qm, ts)
                 [] rule = "validate_tip_percentage" ->
                      validate_tip_percentage(acc.df, acc.qm, ts)
    IN [df |-> acc.df,
        invalid_dfs |-> AppendIfAny(acc.invalid_dfs, res.invalid),
        qm |-> res.qm,
        calls |-> Append(acc.calls, RuleCalled(rule, acc.df, res))]

\* the locals of run_all_checks and the metrics after a rule returned res:
\*     df, invalid = res
\*     if invalid.count() > 0: invalid_dfs.append(invalid)
after_rule(rule, acc, res) ==
    [df |-> res.valid,
     invalid_dfs |-> AppendIfAny(acc.invalid_dfs, res.invalid),
     qm |-> res.qm,
     calls |-> Append(acc.calls, RuleCalled(rule, acc.df, res))]

\* one step of run_all_checks, on its locals df and invalid_dfs and on the
\* metrics of the checker:
\*     df, invalid = self.<rule>(df)
\*     if invalid.count() > 0: invalid_dfs.append(invalid)
run_rule(rule, acc, ts) ==
    after_rule(rule, acc,
               CASE rule = "check_null_values" ->
                      check_null_values(acc.df, acc.qm, ts)
                 [] rule = "validate_numeric_ranges" ->
                      validate_numeric_ranges(acc.df, acc.qm, ts)
                 [] rule = "validate_datetime_logic" ->
                      validate_datetime_logic(acc.df, acc.qm, ts)
                 [] rule = "validate_trip_duration" ->
                      validate_trip_duration(acc.df, acc.qm, ts)
                 [] rule = "validate_tip_percentage" ->
                      validate_tip_percentage(acc.df, acc.qm, ts))

\* if '<column>' in df.columns: the step above
run_rule_if_column(column, rule, acc, ts) ==
    IF column \in acc.df.cols THEN run_rule(rule, acc, ts) ELSE acc

\* the end of run_all_checks: final_count = df.count(), the summary with its
\* division by initial_count, return df, invalid_dfs
run_all_checks_returns(df, acc) ==
    [valid |-> acc.df, invalid_dfs |-> acc.invalid_dfs, qm |-> acc.qm,
     calls |-> acc.calls,
     initial_count |-> Count(df), final_count |-> Count(acc.df),
     raised |-> Count(df) = 0]

\* run_all_checks: the rules in sequence, each on the valid output of the one
\* before; the two derived-column rules only when their column is there.
\* The summary divides by initial_count, so an empty frame raises
\* ZeroDivisionError after the rules have run and set the metrics.
run_all_checks(df, qm, ts) ==
    LET s0 == [df |-> df, invalid_dfs |-> <<>>, qm |-> qm, calls |-> <<>>]
        s1 == run_rule("check_null_values", s0, ts)
        s2 == run_rule("validate_numeric_ranges", s1, ts)
        s3 == run_rule("validate_datetime_logic", s2, ts)
        s4 == run_rule_if_column("trip_duration_minutes", "validate_trip_duration", s3, ts)
        s5 == run_rule_if_column("tip_percentage", "validate_tip_percentage", s4, ts)
    IN run_all_checks_returns(df, s5)


----------------------------------------------------------------------------
(* The wall clock (datetime.now()).  An instant is a month, counted from   *)
(* December 2024, and a second within it.                                  *)

StartOfTime == [month |-> 0, sec |-> 0]

YearOf(t) == 2024 + (t.month + 11) \div 12
MonthOf(t) == ((t.month + 11) % 12) + 1

\* datetime.now().strftime('%Y%m%d_%H%M%S'): the instant at the resolution of
\* one second, and nothing else
strftime(t) == <<YearOf(t), MonthOf(t), t.sec>>

\* time passes: a second, or into the next month
Tick ==
    /\ \/ /\ now.sec < MaxClock
          /\ now' = [now EXCEPT !.sec = now.sec + 1]
       \/ /\ now.month < MaxClock
          /\ now' = [month |-> now.month + 1, sec |-> 0]
    /\ UNCHANGED <<table, quality_metrics, last, runs, dlq, dlq_writes, out, pc, job, invocations, handled>>

----------------------------------------------------------------------------
(* The quarantine sink: S3 parquet under                                   *)
(* dead-letter-queue/taxi/year=Y/month=MM/run_id=R/.  A destination that   *)
(* was never written is not in the store.                                  *)

EmptyStore == [p \in {} |-> {}]

dlq_path(year, month, run_id) == <<year, month, run_id>>

\* what the sink does with one write call: it takes it, or it raises with the
\* destination untouched, or it raises after mode('overwrite') has cleared
\* the destination
SinkOutcomes == {"ok", "error", "error_after_clear"}

\* combined_invalid.write.mode('overwrite').parquet(dlq_path)
write_overwrite(store, path, rows, outcome) ==
    CASE outcome = "ok" ->
           [p \in DOMAIN store \cup {path} |-> IF p = path THEN rows ELSE store[p]]
      [] outcome = "error" -> store
      [] outcome = "error_after_clear" ->
           [p \in DOMAIN store \ {path} |-> store[p]]

\* .withColumn('run_id', F.lit(run_id))
WithRunId(df, run_id) ==
    DF(df.cols \cup {"run_id"}, {[r EXCEPT !.run_id = <<run_id>>] : r \in df.rows})

NonEmptyFrames(invalid_dfs) == SelectSeq(invalid_dfs, LAMBDA d : Count(d) > 0)

\* DataFrame.union: by position, and an AnalysisException when the frames do
\* not have the same columns (the frames of the model whose columns differ
\* differ in the number of columns)
union(a, b) ==
    IF a.cols = b.cols THEN [ok |-> TRUE, df |-> DF(a.cols, a.rows \cup b.rows)]
    ELSE [ok |-> FALSE, df |-> a]

\* DataFrame.unionByName(allowMissingColumns=True): by name, a missing column
\* is NULL
unionByName(a, b) == DF(a.cols \cup b.cols, a.rows \cup b.rows)

\* the loop that combines the non-empty frames (data_quality.py): the combined
\* frame, or none, or the union's error
RECURSIVE checker_combine(_, _)
checker_combine(acc, dfs) ==
    IF dfs = <<>> THEN acc
    ELSE IF ~acc.ok THEN acc
    ELSE IF acc.none THEN checker_combine([ok |-> TRUE, none |-> FALSE, df |-> Head(dfs)], Tail(dfs))
    ELSE LET u == union(acc.df, Head(dfs)) IN
         checker_combine([ok |-> u.ok, none |-> FALSE, df |-> u.df], Tail(dfs))

\* the same loop in glue_etl_job.py
RECURSIVE job_combine(_, _)
job_combine(acc, dfs) ==
    IF dfs = <<>> THEN acc
    ELSE IF acc.none THEN job_combine([none |-> FALSE, df |-> Head(dfs)], Tail(dfs))
    ELSE job_combine([none |-> FALSE, df |-> unionByName(acc.df, Head(dfs))], Tail(dfs))

NoFrame == DF({}, {})

\* a faulty variant, for the sensitivity of the property: only the empty list returns early: the frames are not counted
checker_skips_write_list_only(invalid_dfs) == invalid_dfs = <<>>

\* the two early returns of DataQualityChecker.write_to_dead_letter_queue:
\* nothing in the list, or nothing in any frame of it
checker_skips_write(invalid_dfs) ==
    \/ invalid_dfs = <<>>
    \/ \A i \in DOMAIN invalid_dfs : Count(invalid_dfs[i]) = 0
    \/ LET c == checker_combine([ok |-> TRUE, none |-> TRUE, df |-> NoFrame],
                                NonEmptyFrames(invalid_dfs))
       IN c.ok /\ (c.none \/ Count(c.df) = 0)

\* the same early returns of glue_etl_job.write_to_dead_letter_queue
job_skips_write(invalid_dfs) ==
    \/ invalid_dfs = <<>>
    \/ \A i \in DOMAIN invalid_dfs : Count(invalid_dfs[i]) = 0
    \/ LET c == job_combine([none |-> TRUE, df |-> NoFrame], NonEmptyFrames(invalid_dfs))
       IN c.none \/ Count(c.df) = 0

\* what a writer call did: the list it was given, the destination, whether it
\* called the sink and what the sink answered, whether the call raised, what
\* it printed, the store after it
Outcome(writer, invalid_dfs, path, sink, raised, logged, store) ==
    [writer |-> writer, invalid_dfs |-> invalid_dfs, path |-> path,
     wrote |-> sink # "none", sink |-> sink,
     raised |-> raised, logged |-> logged, store |-> store]

NoOutcome == Outcome("none", <<>>, <<>>, "none", FALSE, {}, EmptyStore)

\* DataQualityChecker.write_to_dead_letter_queue(invalid_dfs, run_id), run_id
\* NULL for None, with the sink answering `outcome`.  The method reads the
\* clock three times: datetime.now() for the default run_id, datetime.now()
\* for the year and datetime.now() for the month of the destination; `reads`
\* holds the three instants.
checker_write_to_dead_letter_queue_at(invalid_dfs, run_id, reads, store, outcome) ==
    LET c == checker_combine([ok |-> TRUE, none |-> TRUE, df |-> NoFrame],
                             NonEmptyFrames(invalid_dfs))
        rid == IF run_id = NULL THEN strftime(reads.run_id) ELSE run_id[1]
        path == dlq_path(YearOf(reads.year), MonthOf(reads.month), rid)
        combined == WithRunId(c.df, rid)
    IN IF checker_skips_write(invalid_dfs)
       THEN Outcome("checker", invalid_dfs, <<>>, "none", FALSE,
                    {"No failed records to write"}, store)
       ELSE IF ~c.ok
       THEN Outcome("checker", invalid_dfs, <<>>, "none", TRUE, {}, store)
       ELSE IF outcome = "ok"
       THEN Outcome("checker", invalid_dfs, path, outcome, FALSE,
                    {"Failed records written successfully to DLQ"},
                    write_overwrite(store, path, combined.rows, outcome))
       \* except Exception as e: print(...); raise
       ELSE Outcome("checker", invalid_dfs, path, outcome, TRUE,
                    {"Error writing to DLQ"},
                    write_overwrite(store, path, combined.rows, outcome))

\* the same call with the clock standing still while it runs
checker_write_to_dead_letter_queue(invalid_dfs, run_id, t, store, outcome) ==
    checker_write_to_dead_letter_queue_at(invalid_dfs, run_id,
                                          [run_id |-> t, year |-> t, month |-> t],
                                          store, outcome)

\* a faulty variant, for the sensitivity of the property: the handler of the job's writer ends in raise, as the checker's does
job_write_to_dead_letter_queue_reraising(invalid_dfs, run_id, t, store, outcome) ==
    LET c == job_combine([none |-> TRUE, df |-> NoFrame], NonEmptyFrames(invalid_dfs))
        path == dlq_path(YearOf(t), MonthOf(t), run_id)
        combined == WithRunId(c.df, run_id)
    IN IF job_skips_write(invalid_dfs)
       THEN Outcome("job", invalid_dfs, <<>>, "none", FALSE,
                    {"No failed records to write"}, store)
       ELSE Outcome("job", invalid_dfs, path, outcome, outcome # "ok",
                    IF outcome = "ok" THEN {"Failed records written successfully to DLQ"}
                    ELSE {"Error writing to DLQ"},
                    write_overwrite(store, path, combined.rows, outcome))

\* glue_etl_job.write_to_dead_letter_queue(invalid_dfs, bucket_name, run_id, spark)
job_write_to_dead_letter_queue(invalid_dfs, run_id, t, store, outcome) ==
    LET c == job_combine([none |-> TRUE, df |-> NoFrame], NonEmptyFrames(invalid_dfs))
        path == dlq_path(YearOf(t), MonthOf(t), run_id)
        combined == WithRunId(c.df, run_id)
    IN IF job_skips_write(invalid_dfs)
       THEN Outcome("job", invalid_dfs, <<>>, "none", FALSE,
                    {"No failed records to write"}, store)
       ELSE IF outcome = "ok"
       THEN Outcome("job", invalid_dfs, path, outcome, FALSE,
                    {"Failed records written successfully to DLQ"},
                    write_overwrite(store, path, combined.rows, outcome))
       \* except Exception as e: print(...); the job goes on
       ELSE Outcome("job", invalid_dfs, path, outcome, FALSE,
                    {"Error writing to DLQ",
                     "Continuing job execution despite DLQ write failure"},
                    write_overwrite(store, path, combined.rows, outcome))

----------------------------------------------------------------------------
(* glue_etl_job.py: the steps of the job                                   *)

\* filter_invalid_records: the rows on which all four comparisons are TRUE
basic_filter_condition(r) ==
    And3(And3(GtLit(r.trip_distance, 0), GtLit(r.fare_amount, 0)),
         And3(GtLit(r.passenger_count, 0),
              GtCol(r.tpep_dropoff_datetime, r.tpep_pickup_datetime)))

\* the frame it returns; its print of removed_count/initial_count raises
\* ZeroDivisionError on an empty frame
filter_invalid_records(df) ==
    [df |-> Filter(df, [r \in df.rows |-> basic_filter_condition(r)]), raised |-> Count(df) = 0]

job_required_fields ==
    {"tpep_pickup_datetime", "tpep_dropoff_datetime", "passenger_count",
     "trip_distance", "fare_amount"}

job_null_condition(cols, r) ==
    IF \E f \in job_required_fields \cap cols : IsNull(r[f]) = T3 THEN T3 ELSE F3

job_range_condition(r) ==
    And3(And3(And3(GeLit(r.passenger_count, 1), LeLit(r.passenger_count, 6)),
              And3(GeLit(r.trip_distance, 10), LeLit(r.trip_distance, 10000))),
         And3(GeLit(r.fare_amount, 1), LeLit(r.fare_amount, 50000)))

job_duration_condition(r) ==
    And3(GeLit(r.trip_duration_minutes, 60), LeLit(r.trip_duration_minutes, 18000))

job_tip_condition(r) ==
    And3(GeLit(r.tip_percentage, 0), LeLit(r.tip_percentage, 10000))

\* run_data_quality_checks: the four inlined checks in sequence; its summary
\* divides by initial_count, so an empty frame raises ZeroDivisionError
run_data_quality_checks(df, ts) ==
    LET nullc(r) == job_null_condition(df.cols, r)
        checked == job_required_fields \cap df.cols # {}
        invalid_nulls == IF checked
                         THEN WithFailure(Filter(df, [r \in df.rows |-> nullc(r)]), "null_in_required_field", ts)
                         ELSE EmptyLike(df)
        l1 == AppendIfAny(<<>>, invalid_nulls)
        d1 == IF checked THEN FilterNot(df, [r \in df.rows |-> nullc(r)]) ELSE df
        invalid_ranges == WithFailure(FilterNot(d1, [r \in d1.rows |-> job_range_condition(r)]),
                                      "numeric_range_violation", ts)
        l2 == AppendIfAny(l1, invalid_ranges)
        d2 == Filter(d1, [r \in d1.rows |-> job_range_condition(r)])
        has_duration == "trip_duration_minutes" \in d2.cols
        invalid_duration == IF has_duration
                            THEN WithFailure(FilterNot(d2, [r \in d2.rows |-> job_duration_condition(r)]),
                                             "invalid_trip_duration", ts)
                            ELSE EmptyLike(d2)
        l3 == AppendIfAny(l2, invalid_duration)
        d3 == IF has_duration THEN Filter(d2, [r \in d2.rows |-> job_duration_condition(r)]) ELSE d2
        has_tip == "tip_percentage" \in d3.cols
        invalid_tip == IF has_tip
                       THEN WithFailure(FilterNot(d3, [r \in d3.rows |-> job_tip_condition(r)]),
                                        "invalid_tip_percentage", ts)
                       ELSE EmptyLike(d3)
        l4 == AppendIfAny(l3, invalid_tip)
        d4 == IF has_tip THEN Filter(d3, [r \in d3.rows |-> job_tip_condition(r)]) ELSE d3
    IN [df |-> d4, invalid_dfs |-> l4, raised |-> Count(df) = 0]

\* Step 7: the statistics main prints of the accepted frame, and its banner
summary_statistics(df, run_id) ==
    [total_records |-> Count(df),
     pickup_dates |-> {r.tpep_pickup_datetime : r \in df.rows},
     run_id |-> run_id,
     lines |-> {"ETL Job Completed Successfully!"}]

NoSummary == [total_records |-> 0, pickup_dates |-> {}, run_id |-> <<>>, lines |-> {}]

\* the locals of main and the effects it had: the frame it holds, the invalid
\* frames, the number of rows it read, what it appended to the target and
\* what the target answered, whether it committed the bookmark, the step an
\* exception left it from, the summary it printed
NoJob ==
    [run_id |-> <<>>, df |-> NoFrame, invalid_dfs |-> <<>>, read |-> 0,
     target |-> {}, target_sink |-> "none", committed |-> FALSE,
     raised_in |-> "none", summary |-> NoSummary]

\* no invocation has started
NoInvocations == <<>>

\* an exception leaves main from step `step`
Raise(j, step) == [j EXCEPT !.raised_in = step]

\* except Exception as e: print(...); job.commit(); raise    (reading the source)
on_read_error(j) == Raise([j EXCEPT !.committed = TRUE], "read")

\* a faulty variant, for the sensitivity of the property: the handler of the target write prints and commits, and does not raise
on_target_write_error_swallowed(j) == [j EXCEPT !.committed = TRUE]

\* except Exception as e: print(...); job.commit(); raise    (writing the target)
on_target_write_error(j) == Raise([j EXCEPT !.committed = TRUE], "write_target")

\* what main does with the outcome of write_to_dead_letter_queue: it has no
\* handler of its own, an exception out of the writer leaves main
after_dlq_write(j, res) == IF res.raised THEN Raise(j, "write_dlq") ELSE j


----------------------------------------------------------------------------
(* s3_notification.lambda_handler.  A dict is a record whose fields are    *)
(* NULL where the key is absent; the JSON body of the response is the      *)
(* record it encodes.                                                      *)

\* dict.get(key, default)
Get(field, default) == IF field = NULL THEN default ELSE field[1]

\* the records of the events of tests/test_lambda_notification.py: an
\* upload, a record with eventName only, a record with none of the keys
\* the handler reads, a record with empty bucket and object, a small upload
RecordShapes ==
    { [eventName |-> <<"ObjectCreated:Put">>, eventTime |-> <<"2024-11-14T10:30:00.000Z">>,
       s3 |-> <<[bucket |-> <<[name |-> <<"de-intern-2024-datalake-dev">>]>>,
                 object |-> <<[key |-> <<"raw/taxi/yellow_tripdata_2024_01.parquet">>,
                               size |-> <<52428800>>]>>]>>],
      [eventName |-> <<"ObjectCreated:Put">>, eventTime |-> NULL, s3 |-> NULL],
      [eventName |-> NULL, eventTime |-> NULL, s3 |-> NULL],
      [eventName |-> NULL, eventTime |-> NULL,
       s3 |-> <<[bucket |-> <<[name |-> NULL]>>,
                 object |-> <<[key |-> NULL, size |-> NULL]>>]>>],
      [eventName |-> <<"ObjectCreated:Put">>, eventTime |-> <<"2024-11-14T10:30:00.000Z">>,
       s3 |-> <<[bucket |-> <<[name |-> <<"test-bucket">>]>>,
                 object |-> <<[key |-> <<"raw/taxi/test.parquet">>,
                               size |-> <<1536>>]>>]>>] }

RECURSIVE SeqsUpTo(_, _)
SeqsUpTo(S, n) ==
    IF n = 0 THEN {<<>>}
    ELSE LET shorter == SeqsUpTo(S, n - 1) IN
         shorter \cup {Append(q, x) : q \in {p \in shorter : Len(p) = n - 1}, x \in S}

\* an event: with no 'Records' key, or with up to MaxRecords records
Events ==
    {[Records |-> NULL]} \cup {[Records |-> <<recs>>] : recs \in SeqsUpTo(RecordShapes, MaxRecords)}

\* the context object: the test's mock has request_id; an object without that
\* attribute raises AttributeError when the handler reads it
Contexts ==
    { [request_id |-> <<"test-request-id-12345">>, function_name |-> "s3-file-notification"],
      [request_id |-> NULL, function_name |-> "s3-file-notification"] }

NoBucket == [name |-> NULL]
NoObject == [key |-> NULL, size |-> NULL]
NoS3 == [bucket |-> NULL, object |-> NULL]

\* round(object_size / (1024 * 1024), 2), in hundredths of a megabyte
size_mb(object_size) ==
    (object_size \div 1048576) * 100 + ((object_size % 1048576) * 100 + 524288) \div 1048576

\* the notification the handler logs for one record
notification(record, context) ==
    LET s3_info == Get(record.s3, NoS3)
        object_info == Get(s3_info.object, NoObject)
        object_size == Get(object_info.size, 0)
    IN [event |-> "S3_FILE_UPLOADED",
        timestamp |-> Get(record.eventTime, "utcnow"),
        bucket |-> Get(Get(s3_info.bucket, NoBucket).name, "Unknown"),
        key |-> Get(object_info.key, "Unknown"),
        size_bytes |-> object_size,
        size_mb |-> size_mb(object_size),
        event_type |-> Get(record.eventName, "Unknown"),
        request_id |-> Get(context.request_id, "AttributeError"),
        function_name |-> context.function_name]

processed_file(n) == [bucket |-> n.bucket, key |-> n.key, size_bytes |-> n.size_bytes]

\* the two log lines of one record
record_log(n) ==
    << [level |-> "info", line |-> "S3 File Notification", exc_info |-> FALSE, about |-> <<n>>],
       [level |-> "info", line |-> "Processed file upload", exc_info |-> FALSE, about |-> <<n>>] >>

RECURSIVE Flatten(_)
Flatten(seqs) == IF seqs = <<>> THEN <<>> ELSE Head(seqs) \o Flatten(Tail(seqs))

\* what raises while a record is processed: context.request_id on an object
\* without that attribute; every key of the record is read with a default
record_raises(record, context) ==
    context.request_id = NULL

lambda_handler(event, context) ==
    LET records == Get(event.Records, <<>>)
        received == [level |-> "info", line |-> "Received S3 event", exc_info |-> FALSE,
                     about |-> <<Len(records)>>]
        failing == {i \in DOMAIN records : record_raises(records[i], context)}
        done == IF failing = {} THEN records
                ELSE SubSeq(records, 1, (CHOOSE i \in failing : \A k \in failing : i <= k) - 1)
        notifications == [i \in DOMAIN done |-> notification(done[i], context)]
        processed_files == [i \in DOMAIN done |-> processed_file(notifications[i])]
        lines == <<received>> \o Flatten([i \in DOMAIN done |-> record_log(notifications[i])])
    IN IF failing = {}
       THEN [response |-> [statusCode |-> 200,
                           body |-> [message |-> "S3 notifications processed successfully",
                                     files_processed |-> <<Len(processed_files)>>,
                                     files |-> <<processed_files>>,
                                     error |-> NULL]],
             log |-> Append(lines, [level |-> "info", line |-> "Successfully processed",
                                    exc_info |-> FALSE, about |-> <<Len(processed_files)>>])]
       ELSE [response |-> [statusCode |-> 500,
                           body |-> [message |-> "Error processing S3 notifications",
                                     files_processed |-> NULL,
                                     files |-> NULL,
                                     error |-> <<"AttributeError">>]],
             log |-> Append(lines, [level |-> "error", line |-> "Error processing S3 event",
                                    exc_info |-> TRUE, about |-> <<"AttributeError">>])]

NoHandled == [n |-> 0, event |-> [Records |-> NULL], context |-> <<>>,
              response |-> <<>>, log |-> <<>>]


----------------------------------------------------------------------------
(* Calls on one DataQualityChecker.  The caller holds one batch (table)    *)
(* and hands it to the checker with or without the derived columns.        *)

NoCall ==
    [op |-> "none", input |-> DF({}, {}), valid |-> DF({}, {}),
     invalid_dfs |-> <<>>, raised |-> FALSE, calls |-> <<>>]

\* a rule method returned (valid, invalid)
RuleCall(op, df, res) ==
    /\ runs < MaxRuns
    /\ runs' = runs + 1
    /\ quality_metrics' = res.qm
    /\ last' = [op |-> op, input |-> df, valid |-> res.valid,
                invalid_dfs |-> <<res.invalid>>, raised |-> FALSE,
                calls |-> <<RuleCalled(op, df, res)>>]
    /\ UNCHANGED <<table, dlq, dlq_writes, out, now, pc, job, invocations, handled>>

\* the three rules on source columns are called on the frame as it was read,
\* as in the tests; the derived columns are nothing to them
CheckNullValues ==
    \E df \in {SourceFrame(table)} :
        RuleCall("check_null_values", df, check_null_values(df, quality_metrics, now))

ValidateNumericRanges ==
    \E df \in {SourceFrame(table)} :
        RuleCall("validate_numeric_ranges", df,
                 validate_numeric_ranges(df, quality_metrics, now))

ValidateDatetimeLogic ==
    \E df \in {SourceFrame(table)} :
        RuleCall("validate_datetime_logic", df,
                 validate_datetime_logic(df, quality_metrics, now))

ValidateTripDuration ==
    \E df \in Frames(table) :
        RuleCall("validate_trip_duration", df,
                 validate_trip_duration(df, quality_metrics, now))

ValidateTipPercentage ==
    \E df \in Frames(table) :
        RuleCall("validate_tip_percentage", df,
                 validate_tip_percentage(df, quality_metrics, now))

\* run_all_checks returned (valid, invalid_dfs), or raised at its summary; the
\* metrics the rules set stay on the checker either way
RunAllChecksOn(df) ==
    LET res == run_all_checks(df, quality_metrics, now) IN
    /\ runs < MaxRuns
    /\ runs' = runs + 1
    /\ quality_metrics' = res.qm
    /\ last' = [op |-> "run_all_checks", input |-> df, valid |-> res.valid,
                invalid_dfs |-> res.invalid_dfs, raised |-> res.raised,
                calls |-> res.calls]
    /\ UNCHANGED <<table, dlq, dlq_writes, out, now, pc, job, invocations, handled>>

RunAllChecks == \E df \in Frames(table) : RunAllChecksOn(df)

\* return self.quality_metrics.copy()
get_quality_metrics == quality_metrics


InitChecker ==
    /\ table \in Batches
    /\ quality_metrics = NoMetrics
    /\ last = NoCall
    /\ runs = 0
    /\ dlq = EmptyStore
    /\ dlq_writes = 0
    /\ out = NoOutcome
    /\ now = StartOfTime
    /\ pc = "idle"
    /\ job = NoJob
    /\ invocations = NoInvocations
    /\ handled = NoHandled

NextChecker ==
    \/ CheckNullValues
    \/ ValidateNumericRanges
    \/ ValidateDatetimeLogic
    \/ ValidateTripDuration
    \/ ValidateTipPercentage
    \/ RunAllChecks

SpecChecker == InitChecker /\ [][NextChecker]_vars


----------------------------------------------------------------------------
(* Runs of run_all_checks, and nothing else, on one DataQualityChecker:    *)
(* on the frames above, and on frames whose schema lacks a column that a   *)
(* rule reads.                                                             *)

\* the frame without column c (a field whose column is not in the frame is
\* NULL in the rows of the model)
WithoutColumn(df, c) ==
    DF(df.cols \ {c}, {[r EXCEPT ![c] = NULL] : r \in df.rows})

\* the source frame read under a schema that lacks a timestamp, or a
\* required numeric field
SchemaVariants(rows) ==
    {WithoutColumn(SourceFrame(rows), c) : c \in {"tpep_pickup_datetime", "passenger_count"}}

RunAllChecksLackingColumn == \E df \in SchemaVariants(table) : RunAllChecksOn(df)

NextRuns ==
    \/ RunAllChecks
    \/ RunAllChecksLackingColumn

SpecRuns == InitChecker /\ [][NextRuns]_vars


----------------------------------------------------------------------------
(* Invocations of the S3 notification handler.                             *)

LambdaHandler ==
    \E event \in Events, context \in Contexts :
        LET res == lambda_handler(event, context) IN
        /\ handled.n < MaxHandled
        /\ handled' = [n |-> handled.n + 1, event |-> event, context |-> context,
                       response |-> res.response, log |-> res.log]
        /\ UNCHANGED <<table, quality_metrics, last, runs, dlq, dlq_writes, out, now, pc,
                       job, invocations>>

InitLambda ==
    /\ table = {}
    /\ quality_metrics = NoMetrics
    /\ last = NoCall
    /\ runs = 0
    /\ dlq = EmptyStore
    /\ dlq_writes = 0
    /\ out = NoOutcome
    /\ now = StartOfTime
    /\ pc = "idle"
    /\ job = NoJob
    /\ invocations = NoInvocations
    /\ handled = NoHandled

NextLambda == LambdaHandler

SpecLambda == InitLambda /\ [][NextLambda]_vars


----------------------------------------------------------------------------
(* Calls on the quarantine writers.  The lists of invalid frames handed to *)
(* them are those run_all_checks returns on the batch of the spec's third  *)
(* scenario (a valid row, a row with a NULL required field, a row with     *)
(* trip_distance = 150), its parts, the lists with nothing in them, and a  *)
(* list whose frames come from runs on the batch with and without the      *)
(* derived columns.                                                        *)

ScenarioBatch ==
    {[FixtureRows[1] EXCEPT !.id = 1], [FixtureRows[2] EXCEPT !.id = 2],
     [FixtureRows[4] EXCEPT !.id = 3]}

ScenarioRun == run_all_checks(DerivedFrame(ScenarioBatch), NoMetrics, StartOfTime)

ScenarioSourceRun == run_all_checks(SourceFrame(ScenarioBatch), NoMetrics, StartOfTime)

WriterInputs ==
    { <<>>,
      <<EmptyLike(DerivedFrame(ScenarioBatch))>>,
      ScenarioRun.invalid_dfs,
      SubSeq(ScenarioRun.invalid_dfs, 1, 1),
      <<ScenarioSourceRun.invalid_dfs[1], ScenarioRun.invalid_dfs[2]>> }

\* the run_id a caller passes: the timestamp of the start of its run, which is
\* the start of time or the present instant
CallerRunIds == {strftime(StartOfTime), strftime(now)}

WriterCall(res) ==
    /\ dlq_writes < MaxWrites
    /\ dlq' = res.store
    /\ dlq_writes' = IF res.wrote THEN dlq_writes + 1 ELSE dlq_writes
    /\ out' = res
    /\ UNCHANGED <<table, quality_metrics, last, runs, now, pc, job, invocations, handled>>

CheckerWriteDLQ ==
    \E invalid_dfs \in WriterInputs :
    \E run_id \in {NULL} \cup {<<id>> : id \in CallerRunIds} :
    \E outcome \in SinkOutcomes :
        WriterCall(checker_write_to_dead_letter_queue(invalid_dfs, run_id, now, dlq, outcome))

JobWriteDLQ ==
    \E invalid_dfs \in WriterInputs :
    \E run_id \in CallerRunIds :
    \E outcome \in SinkOutcomes :
        WriterCall(job_write_to_dead_letter_queue(invalid_dfs, run_id, now, dlq, outcome))

InitWriter ==
    /\ table = {}
    /\ quality_metrics = NoMetrics
    /\ last = NoCall
    /\ runs = 0
    /\ dlq = EmptyStore
    /\ dlq_writes = 0
    /\ out = NoOutcome
    /\ now = StartOfTime
    /\ pc = "idle"
    /\ job = NoJob
    /\ invocations = NoInvocations
    /\ handled = NoHandled

NextWriter ==
    \/ CheckerWriteDLQ
    \/ JobWriteDLQ
    \/ Tick

SpecWriter == InitWriter /\ [][NextWriter]_vars

----------------------------------------------------------------------------
(* Calls on the checker's writer while the clock runs: the month may turn  *)
(* between two of the three clock reads of a call.                         *)

\* the first instant of the month after t
NextMonth(t) == [month |-> t.month + 1, sec |-> 0]

\* the instants a call that starts at t may read: t, or the turn of the month
InstantsFrom(t) == {t} \cup (IF t.month < MaxClock THEN {NextMonth(t)} ELSE {})

\* t is not after u
NotAfter(t, u) == t.month < u.month \/ (t.month = u.month /\ t.sec <= u.sec)

\* the three reads of a call that starts at t, in the order of the code
ClockReads(t) ==
    {reads \in [run_id : InstantsFrom(t), year : InstantsFrom(t), month : InstantsFrom(t)] :
        NotAfter(reads.run_id, reads.year) /\ NotAfter(reads.year, reads.month)}

CheckerWriteDLQWhileClockRuns ==
    \E invalid_dfs \in WriterInputs :
    \E run_id \in {NULL} \cup {<<id>> : id \in CallerRunIds} :
    \E outcome \in SinkOutcomes :
    \E reads \in ClockReads(now) :
        LET res == checker_write_to_dead_letter_queue_at(invalid_dfs, run_id, reads,
                                                         dlq, outcome) IN
        /\ dlq_writes < MaxWrites
        /\ dlq' = res.store
        /\ dlq_writes' = IF res.wrote THEN dlq_writes + 1 ELSE dlq_writes
        /\ out' = res
        /\ now' = reads.month
        /\ UNCHANGED <<table, quality_metrics, last, runs, pc, job, invocations, handled>>

NextClock ==
    \/ CheckerWriteDLQWhileClockRuns
    \/ Tick

SpecClock == InitWriter /\ [][NextClock]_vars


----------------------------------------------------------------------------
(* glue_etl_job.main, step by step.  The source, the quarantine sink and   *)
(* the target each take the call or raise.                                 *)

JobStep(next, j) ==
    /\ pc' = IF j.raised_in # "none" THEN "failed" ELSE next
    /\ job' = j
    /\ UNCHANGED <<table, quality_metrics, last, runs, now, invocations, handled>>

\* run_id = datetime.now().strftime(...); Step 1: read the raw data
ReadSource ==
    /\ pc = "start"
    /\ \E ok \in BOOLEAN :
         LET j == [job EXCEPT !.run_id = strftime(now)] IN
         IF ok
         THEN JobStep("derive", [j EXCEPT !.df = SourceFrame(table),
                                          !.read = Cardinality(table)])
         ELSE JobStep("derive", on_read_error(j))
    /\ UNCHANGED <<dlq, dlq_writes, out>>

\* Step 2
AddDerivedColumns ==
    /\ pc = "derive"
    /\ JobStep("filter", [job EXCEPT !.df = add_derived_columns(job.df, now)])
    /\ UNCHANGED <<dlq, dlq_writes, out>>

\* Step 3
FilterInvalidRecords ==
    /\ pc = "filter"
    /\ LET f == filter_invalid_records(job.df) IN
       IF f.raised THEN JobStep("checks", Raise(job, "filter"))
       ELSE JobStep("checks", [job EXCEPT !.df = f.df])
    /\ UNCHANGED <<dlq, dlq_writes, out>>

\* a faulty variant, for the sensitivity of the property: Step 4 writes the
\* rejected frames to the quarantine sink as it goes
RunDataQualityChecks_writing_as_it_goes ==
    /\ pc = "checks"
    /\ LET c == run_data_quality_checks(job.df, now)
           res == job_write_to_dead_letter_queue(c.invalid_dfs, job.run_id, now, dlq, "ok")
       IN /\ dlq' = res.store
          /\ dlq_writes' = IF res.wrote THEN dlq_writes + 1 ELSE dlq_writes
          /\ out' = res
          /\ IF c.raised THEN JobStep("write_dlq", Raise(job, "checks"))
             ELSE JobStep("write_dlq", [job EXCEPT !.df = c.df, !.invalid_dfs = c.invalid_dfs])

\* Step 4
RunDataQualityChecks ==
    /\ pc = "checks"
    /\ LET c == run_data_quality_checks(job.df, now) IN
       IF c.raised THEN JobStep("write_dlq", Raise(job, "checks"))
       ELSE JobStep("write_dlq", [job EXCEPT !.df = c.df, !.invalid_dfs = c.invalid_dfs])
    /\ UNCHANGED <<dlq, dlq_writes, out>>

\* Step 5
WriteDeadLetterQueue ==
    /\ pc = "write_dlq"
    /\ \E outcome \in SinkOutcomes :
         LET res == job_write_to_dead_letter_queue(job.invalid_dfs, job.run_id, now,
                                                   dlq, outcome) IN
         /\ dlq' = res.store
         /\ dlq_writes' = IF res.wrote THEN dlq_writes + 1 ELSE dlq_writes
         /\ out' = res
         /\ JobStep("write_target", after_dlq_write(job, res))

\* Step 6: df.write.mode('append').partitionBy('year', 'month').parquet(target_path)
WriteTarget ==
    /\ pc = "write_target"
    /\ \E ok \in BOOLEAN :
         IF ok
         THEN JobStep("summary", [job EXCEPT !.target = job.target \cup job.df.rows,
                                             !.target_sink = "ok"])
         ELSE JobStep("summary", on_target_write_error([job EXCEPT !.target_sink = "error"]))
    /\ UNCHANGED <<dlq, dlq_writes, out>>

\* Step 7
Summarize ==
    /\ pc = "summary"
    /\ JobStep("commit", [job EXCEPT !.summary = summary_statistics(job.df, job.run_id)])
    /\ UNCHANGED <<dlq, dlq_writes, out>>

\* job.commit()
Commit ==
    /\ pc = "commit"
    /\ JobStep("done", [job EXCEPT !.committed = TRUE])
    /\ UNCHANGED <<dlq, dlq_writes, out>>

\* time passes while main runs.  main reads the clock when it starts, in
\* Step 2 (current_timestamp), in Step 4 (failed_at) and in Step 5 (the
\* destination): the run starts at the start of time, and time passes
\* between its start and its quarantine write.
JobTick == pc \in {"derive", "filter", "checks", "write_dlq"} /\ Tick

InitJob ==
    /\ table \in Batches
    /\ quality_metrics = NoMetrics
    /\ last = NoCall
    /\ runs = 0
    /\ dlq = EmptyStore
    /\ dlq_writes = 0
    /\ out = NoOutcome
    /\ now = StartOfTime
    /\ pc = "start"
    /\ job = NoJob
    /\ invocations = NoInvocations
    /\ handled = NoHandled

NextJob ==
    \/ ReadSource
    \/ AddDerivedColumns
    \/ FilterInvalidRecords
    \/ RunDataQualityChecks
    \/ WriteDeadLetterQueue
    \/ WriteTarget
    \/ Summarize
    \/ Commit
    \/ JobTick

SpecJob == InitJob /\ [][NextJob]_vars


----------------------------------------------------------------------------
(* Invocations of glue_etl_job.main that share the quarantine sink, one    *)
(* after the other or at the same time.  Of each invocation the model      *)
(* keeps the run_id it took when it started and its quarantine write.      *)

\* Steps 1 to 4 of main on the rows of the source, at instant ts: the invalid
\* frames it hands to write_to_dead_letter_queue, or the exception of an
\* empty frame
main_steps_1_to_4(rows, ts) ==
    LET derived == add_derived_columns(SourceFrame(rows), ts)
        filtered == filter_invalid_records(derived)
        checked == run_data_quality_checks(filtered.df, ts)
    IN [raised |-> filtered.raised \/ checked.raised,
        invalid_dfs |-> checked.invalid_dfs]

\* run_id = datetime.now().strftime('%Y%m%d_%H%M%S')
StartInvocation ==
    /\ Len(invocations) < MaxInvocations
    /\ invocations' = Append(invocations,
                             [run_id |-> strftime(now), at |-> "running",
                              sink |-> "none", path |-> <<>>, rows |-> {}])
    /\ UNCHANGED <<table, quality_metrics, last, runs, dlq, dlq_writes, out, now, pc, job, handled>>

\* Steps 1 to 5 of an invocation that has started
QuarantineOfInvocation ==
    \E i \in DOMAIN invocations :
    \E outcome \in SinkOutcomes :
        LET inv == invocations[i]
            steps == main_steps_1_to_4(table, now)
            res == job_write_to_dead_letter_queue(steps.invalid_dfs, inv.run_id, now,
                                                  dlq, outcome)
        IN /\ inv.at = "running"
           /\ IF steps.raised
              THEN /\ invocations' = [invocations EXCEPT ![i].at = "failed"]
                   /\ UNCHANGED <<dlq, dlq_writes>>
              ELSE /\ invocations' =
                        [invocations EXCEPT ![i] =
                            [run_id |-> inv.run_id, at |-> "written", sink |-> res.sink,
                             path |-> res.path,
                             rows |-> IF res.sink = "ok" THEN res.store[res.path] ELSE {}]]
                   /\ dlq' = res.store
                   /\ dlq_writes' = IF res.wrote THEN dlq_writes + 1 ELSE dlq_writes
           /\ UNCHANGED <<table, quality_metrics, last, runs, out, now, pc, job, handled>>

InitInvocations ==
    /\ table \in Batches
    /\ quality_metrics = NoMetrics
    /\ last = NoCall
    /\ runs = 0
    /\ dlq = EmptyStore
    /\ dlq_writes = 0
    /\ out = NoOutcome
    /\ now = StartOfTime
    /\ pc = "idle"
    /\ job = NoJob
    /\ invocations = NoInvocations
    /\ handled = NoHandled

NextInvocations ==
    \/ StartInvocation
    \/ QuarantineOfInvocation
    \/ Tick

SpecInvocations == InitInvocations /\ [][NextInvocations]_vars


----------------------------------------------------------------------------
(* Properties of the rule methods and of run_all_checks (SpecChecker)      *)

RuleMethods ==
    {"check_null_values", "validate_numeric_ranges", "validate_datetime_logic",
     "validate_trip_duration", "validate_tip_percentage"}

\* the last call was a run of run_all_checks that returned
RunReturned == last.op = "run_all_checks" /\ ~last.raised

\* the rows of the input that the last run did not accept
Rejected == {r \in last.input.rows : r.id \notin Ids(last.valid)}

\* the rules run_all_checks evaluates on a frame with these columns, in its
\* order, each with the failure_reason it writes and the metrics key it sets
RulesEvaluated(cols) ==
    SelectSeq(<< [reason |-> "null_in_required_field", key |-> "null_violations",
                  on |-> REQUIRED_FIELDS \cap cols # {}],
                 [reason |-> "numeric_range_violation", key |-> "range_violations",
                  on |-> TRUE],
                 [reason |-> "invalid_datetime_sequence", key |-> "datetime_violations",
                  on |-> {"tpep_pickup_datetime", "tpep_dropoff_datetime"} \subseteq cols],
                 [reason |-> "invalid_trip_duration", key |-> "duration_violations",
                  on |-> "trip_duration_minutes" \in cols],
                 [reason |-> "invalid_tip_percentage", key |-> "tip_percentage_violations",
                  on |-> "tip_percentage" \in cols] >>,
              LAMBDA x : x.on)

\* whether the rule with this failure_reason accepts the row: its condition
\* is TRUE on it
Accepts(reason, cols, r) ==
    CASE reason = "null_in_required_field" -> null_condition(cols, r) = F3
      [] reason = "numeric_range_violation" -> range_condition(cols, r) = T3
      [] reason = "invalid_datetime_sequence" -> datetime_condition(r) = T3
      [] reason = "invalid_trip_duration" -> duration_condition(r) = T3
      [] reason = "invalid_tip_percentage" -> tip_condition(r) = T3

\* the failure_reason of the first rule, in the fixed order, that does not
\* accept the row ("none" when every rule accepts it)
FirstFailed(cols, r) ==
    LET rules == RulesEvaluated(cols)
        failing == {i \in DOMAIN rules : ~Accepts(rules[i].reason, cols, r)}
    IN IF failing = {} THEN "none"
       ELSE rules[CHOOSE i \in failing : \A j \in failing : i <= j].reason

\* the invalid batches of the last run that hold the row
Holders(r) == {i \in DOMAIN last.invalid_dfs : r.id \in Ids(last.invalid_dfs[i])}

\* C1: for each rule method and every input batch, the returned valid and
\* invalid batches are disjoint by record identity and
\* valid.count + invalid.count == input.count.
C1_PartitionInvariant ==
    last.op \in RuleMethods =>
        /\ Ids(last.valid) \cap Ids(last.invalid_dfs[1]) = {}
        /\ Count(last.valid) + Count(last.invalid_dfs[1]) = Count(last.input)

\* C2: after run_all_checks, every rejected record is in exactly one invalid
\* batch, that of the first rule in the fixed order that it fails, tagged
\* with that rule's failure_reason, and it is counted in exactly one metrics
\* entry: the entry of each evaluated rule counts the records rejected by it.
C2_SingleAttribution ==
    RunReturned =>
        /\ \A r \in Rejected :
              /\ Cardinality(Holders(r)) = 1
              /\ \A i \in Holders(r) : \A x \in last.invalid_dfs[i].rows :
                    x.id = r.id => x.failure_reason = <<FirstFailed(last.input.cols, r)>>
        /\ LET rules == RulesEvaluated(last.input.cols) IN
           \A i \in DOMAIN rules :
              /\ rules[i].key \in DOMAIN get_quality_metrics
              /\ get_quality_metrics[rules[i].key] =
                   Cardinality({r \in Rejected :
                                  FirstFailed(last.input.cols, r) = rules[i].reason})

\* C3: after any run of run_all_checks, the values of get_quality_metrics sum
\* to the number of records processed minus the number of records passed.
C3_MetricSum ==
    RunReturned =>
        MetricSum(get_quality_metrics) = Count(last.input) - Count(last.valid)


\* the rule methods in the order of the rules of the pipeline
RuleOrder ==
    << "check_null_values", "validate_numeric_ranges", "validate_datetime_logic",
       "validate_trip_duration", "validate_tip_percentage" >>

RulePosition(rule) == CHOOSE i \in DOMAIN RuleOrder : RuleOrder[i] = rule

\* C12: run_all_checks calls the rules in the fixed order (the first three
\* always), the first on its input and each later one on exactly the valid
\* output of the rule called before it, so that no rule is given a record an
\* earlier rule rejected; what it returns is the valid output of the last.
C12_FixedOrderChained ==
    last.op = "run_all_checks" =>
        LET calls == last.calls IN
        /\ Len(calls) >= 3
        /\ \A k \in 1..3 : calls[k].rule = RuleOrder[k]
        /\ \A k \in DOMAIN calls : \A l \in DOMAIN calls :
              k < l => /\ RulePosition(calls[k].rule) < RulePosition(calls[l].rule)
                       /\ Ids(calls[k].invalid) \cap Ids(calls[l].input) = {}
        /\ calls[1].input = last.input
        /\ \A k \in DOMAIN calls : k > 1 => calls[k].input = calls[k - 1].valid
        /\ last.valid = calls[Len(calls)].valid

\* a run of all five rules in which the second rule rejected a record and
\* handed another on to the third
C12_Witness ==
    /\ last.op = "run_all_checks"
    /\ Len(last.calls) = 5
    /\ Count(last.calls[2].invalid) > 0
    /\ Count(last.calls[3].input) > 0


\* the rows of a frame that carry the identity of row r
Copies(df, r) == {x \in df.rows : x.id = r.id}

\* the last call was a call of this rule method
Called(rule) == last.op = rule

\* the invalid frame the last rule call returned holds row r once, tagged
\* with this reason and a failed_at timestamp
RejectedOnceAs(reason, r) ==
    /\ Cardinality(Copies(last.invalid_dfs[1], r)) = 1
    /\ \A x \in Copies(last.invalid_dfs[1], r) :
          x.failure_reason = <<reason>> /\ x.failed_at # NULL
    /\ Copies(last.valid, r) = {}

\* the last rule call accepted row r: it is in the valid frame, unchanged,
\* and not in the invalid frame
AcceptedUnchanged(r) ==
    /\ Copies(last.valid, r) = {r}
    /\ Copies(last.invalid_dfs[1], r) = {}

\* the required fields that are NULL in the row
NullRequiredFields(r) == {f \in REQUIRED_FIELDS : r[f] = NULL}

\* C13: check_null_values rejects a record if and only if at least one
\* required field is NULL in it; a rejected record, whatever the number of
\* its NULL required fields, is in the invalid batch exactly once, tagged
\* null_in_required_field with a failed_at timestamp; every other record is
\* accepted.
C13_NullRule ==
    Called("check_null_values") =>
        \A r \in last.input.rows :
            IF NullRequiredFields(r) # {}
            THEN RejectedOnceAs("null_in_required_field", r)
            ELSE AcceptedUnchanged(r)

\* check_null_values was called on a batch with a record in which two
\* required fields are NULL and a record in which none is
C13_Witness ==
    /\ Called("check_null_values")
    /\ \E r \in last.input.rows :
          Cardinality(NullRequiredFields(r)) >= 2 /\ r.id \in Ids(last.invalid_dfs[1])
    /\ \E r \in last.input.rows :
          NullRequiredFields(r) = {} /\ r.id \in Ids(last.valid)


\* the configured fields whose value in the row is inside the inclusive range
FieldsInside(r) ==
    {f \in DOMAIN NUMERIC_RANGES :
        /\ r[f] # NULL
        /\ NUMERIC_RANGES[f][1] <= r[f][1]
        /\ r[f][1] <= NUMERIC_RANGES[f][2]}

\* the configured fields whose value in the row is outside the range
FieldsOutside(r) ==
    {f \in DOMAIN NUMERIC_RANGES :
        /\ r[f] # NULL
        /\ (r[f][1] < NUMERIC_RANGES[f][1] \/ r[f][1] > NUMERIC_RANGES[f][2])}

\* the configured fields whose value in the row is at a bound of the range
FieldsAtBound(r) ==
    {f \in DOMAIN NUMERIC_RANGES :
        r[f] # NULL /\ (r[f][1] = NUMERIC_RANGES[f][1] \/ r[f][1] = NUMERIC_RANGES[f][2])}

\* C14: validate_numeric_ranges accepts a record if and only if the value of
\* every configured field is inside its inclusive [min, max] range, a value
\* equal to min or to max being inside; a record with a value outside its
\* range, in one field or in several, is in the invalid batch exactly once,
\* tagged numeric_range_violation.
C14_RangeRule ==
    Called("validate_numeric_ranges") =>
        \A r \in last.input.rows :
            /\ AcceptedUnchanged(r) <=> FieldsInside(r) = DOMAIN NUMERIC_RANGES
            /\ r.id \in Ids(last.valid) <=> FieldsInside(r) = DOMAIN NUMERIC_RANGES
            /\ FieldsOutside(r) # {} => RejectedOnceAs("numeric_range_violation", r)

\* validate_numeric_ranges accepted a record with values at their bounds and
\* rejected a record with a value outside its range
C14_Witness ==
    /\ Called("validate_numeric_ranges")
    /\ \E r \in last.input.rows :
          Cardinality(FieldsAtBound(r)) >= 2 /\ r.id \in Ids(last.valid)
    /\ \E r \in last.input.rows :
          FieldsOutside(r) # {} /\ r.id \in Ids(last.invalid_dfs[1])


\* both instants of the row are known
HasBothTimes(r) == r.tpep_pickup_datetime # NULL /\ r.tpep_dropoff_datetime # NULL

\* C15: validate_datetime_logic accepts a record if and only if its dropoff
\* instant is strictly later than its pickup instant; a record whose dropoff
\* equals or precedes its pickup is rejected, tagged
\* invalid_datetime_sequence.
C15_DatetimeRule ==
    Called("validate_datetime_logic") =>
        \A r \in last.input.rows :
            /\ AcceptedUnchanged(r) <=>
                  (HasBothTimes(r) /\ r.tpep_dropoff_datetime[1] > r.tpep_pickup_datetime[1])
            /\ r.id \in Ids(last.valid) <=>
                  (HasBothTimes(r) /\ r.tpep_dropoff_datetime[1] > r.tpep_pickup_datetime[1])
            /\ (HasBothTimes(r) /\ r.tpep_dropoff_datetime[1] <= r.tpep_pickup_datetime[1])
                  => RejectedOnceAs("invalid_datetime_sequence", r)

\* validate_datetime_logic rejected a record whose dropoff equals its pickup
\* and accepted a record whose dropoff is later
C15_Witness ==
    /\ Called("validate_datetime_logic")
    /\ \E r \in last.input.rows :
          /\ HasBothTimes(r)
          /\ r.tpep_dropoff_datetime = r.tpep_pickup_datetime
          /\ r.id \in Ids(last.invalid_dfs[1])
    /\ \E r \in last.input.rows :
          /\ HasBothTimes(r)
          /\ r.tpep_dropoff_datetime[1] > r.tpep_pickup_datetime[1]
          /\ r.id \in Ids(last.valid)


\* the value of a column of the row is known and lies in [lo, hi]
Within(v, lo, hi) == v # NULL /\ lo <= v[1] /\ v[1] <= hi

\* C16: on a frame that carries the derived duration, validate_trip_duration
\* accepts a record if and only if its duration lies in the inclusive range
\* [min_minutes, max_minutes]; every other record of the input is rejected,
\* tagged invalid_trip_duration.
C16_DurationRule ==
    (Called("validate_trip_duration") /\ "trip_duration_minutes" \in last.input.cols) =>
        \A r \in last.input.rows :
            IF Within(r.trip_duration_minutes, min_minutes, max_minutes)
            THEN AcceptedUnchanged(r)
            ELSE RejectedOnceAs("invalid_trip_duration", r)

\* C17: on a frame that carries the derived tip ratio, validate_tip_percentage
\* accepts a record if and only if its ratio lies in the inclusive range
\* [0, max_percentage]; every other record of the input is rejected, tagged
\* invalid_tip_percentage.
C17_TipRule ==
    (Called("validate_tip_percentage") /\ "tip_percentage" \in last.input.cols) =>
        \A r \in last.input.rows :
            IF Within(r.tip_percentage, 0, max_percentage)
            THEN AcceptedUnchanged(r)
            ELSE RejectedOnceAs("invalid_tip_percentage", r)


\* the records the last call rejected, as they are in its invalid batches
RejectedRows == UNION {last.invalid_dfs[i].rows : i \in DOMAIN last.invalid_dfs}

\* C20: after a call on the checker, the failure_reason written on a rejected
\* record is the key of the metrics entry that counts the rejections of its
\* rule: the metrics have an entry under that name, and its value is the
\* number of records rejected with that reason.  (One record with
\* passenger_count = 0: metrics['numeric_range_violation'] = 1.)
C20_MetricsKeyedByReason ==
    (last.op # "none" /\ ~last.raised) =>
        \A x \in RejectedRows :
            /\ x.failure_reason[1] \in DOMAIN get_quality_metrics
            /\ get_quality_metrics[x.failure_reason[1]] =
                  Cardinality({y \in RejectedRows : y.failure_reason = x.failure_reason})


----------------------------------------------------------------------------
(* Properties of sequences of runs on one checker (SpecRuns)               *)

\* the metrics key a rule method sets
MetricsKey(rule) ==
    CASE rule = "check_null_values" -> "null_violations"
      [] rule = "validate_numeric_ranges" -> "range_violations"
      [] rule = "validate_datetime_logic" -> "datetime_violations"
      [] rule = "validate_trip_duration" -> "duration_violations"
      [] rule = "validate_tip_percentage" -> "tip_percentage_violations"

\* C21: after any sequence of run_all_checks calls on one checker, the
\* metrics describe the most recent run only: every entry is the entry of a
\* rule that run called, and its value is the number of records that call
\* rejected; nothing is left over from an earlier run.
C21_MetricsOfLastRun ==
    last.op = "run_all_checks" =>
        \A k \in DOMAIN get_quality_metrics :
            \E i \in DOMAIN last.calls :
                /\ MetricsKey(last.calls[i].rule) = k
                /\ get_quality_metrics[k] = Count(last.calls[i].invalid)


\* the columns a mandatory rule reads: the required fields of the presence
\* rule, which include the two timestamps of the temporal-ordering rule
MandatoryColumns == REQUIRED_FIELDS \cup {"tpep_pickup_datetime", "tpep_dropoff_datetime"}

\* C22: a run on a batch whose schema lacks a column of a mandatory rule
\* aborts with an error, and no record of the batch is accepted.
C22_MissingFieldAborts ==
    (last.op = "run_all_checks" /\ ~ (MandatoryColumns \subseteq last.input.cols)) =>
        /\ last.raised
        /\ Count(last.valid) = 0

\* C23: a run of run_all_checks on a batch with a well-formed schema,
\* the empty batch included, returns without raising.
C23_RunTerminatesNormally ==
    (last.op = "run_all_checks" /\ MandatoryColumns \subseteq last.input.cols) =>
        ~ last.raised


----------------------------------------------------------------------------
(* Properties of the S3 notification handler (SpecLambda)                  *)

LacksS3(event) ==
    \E i \in DOMAIN Get(event.Records, <<>>) : Get(event.Records, <<>>)[i].s3 = NULL

\* C24: for every event with a record that lacks 's3', the handler
\* returns statusCode 500, the message 'Error processing S3 notifications'
\* and an 'error' field in the body, and logs the error.
C24_MalformedRecordIs500 ==
    (handled.n > 0 /\ LacksS3(handled.event)) =>
        /\ handled.response.statusCode = 500
        /\ handled.response.body.message = "Error processing S3 notifications"
        /\ handled.response.body.error # NULL
        /\ \E i \in DOMAIN handled.log : handled.log[i].level = "error"


----------------------------------------------------------------------------
(* Properties of the quarantine writers (SpecWriter)                       *)

AllEmpty(invalid_dfs) == \A i \in DOMAIN invalid_dfs : Count(invalid_dfs[i]) = 0

\* the last writer call called the sink and the sink raised
SinkRaised == out.wrote /\ out.sink # "ok"

\* C5: a writer call on a list of invalid batches that is empty, or whose
\* batches are all empty, performs no write call on the quarantine sink.
C5_NoWriteOnEmpty ==
    [][(out' # out /\ AllEmpty(out'.invalid_dfs)) =>
           (dlq_writes' = dlq_writes /\ dlq' = dlq /\ ~out'.wrote)]_vars

\* a writer was called with a list that holds a batch, all of its batches
\* empty, and the sink was not called
C5_Witness ==
    /\ out.writer \in {"checker", "job"}
    /\ out.invalid_dfs # <<>>
    /\ AllEmpty(out.invalid_dfs)
    /\ ~out.wrote
    /\ dlq_writes = 0

\* C7: DataQualityChecker.write_to_dead_letter_queue catches an error raised
\* by the quarantine sink, logs it and returns normally.
C7_CheckerSwallowsSinkError ==
    (out.writer = "checker" /\ SinkRaised) =>
        ("Error writing to DLQ" \in out.logged /\ ~out.raised)

\* C10: a successful quarantine write leaves every destination written
\* earlier as it was: it neither deletes its entries nor merges into them.
C10_WriteOnce ==
    [][(out' # out /\ out'.sink = "ok") =>
           \A p \in DOMAIN dlq : p \in DOMAIN dlq' /\ dlq'[p] = dlq[p]]_vars

\* the rows of the frames of a list, each stamped with the run_id
Stamped(invalid_dfs, run_id) ==
    {[r EXCEPT !.run_id = <<run_id>>] :
        r \in UNION {invalid_dfs[i].rows : i \in DOMAIN invalid_dfs}}

\* C26: a writer call on a list that holds a record, with the sink taking
\* the write, raises nothing and stores at its destination exactly the
\* records of the list, each once, with their failure_reason and field
\* values and the run_id of the destination, also when the frames of the
\* list have different columns.
C26_QuarantineWriteComplete ==
    (/\ out.writer \in {"checker", "job"}
     /\ ~AllEmpty(out.invalid_dfs)
     /\ out.sink \notin {"error", "error_after_clear"}) =>
        /\ ~out.raised
        /\ out.sink = "ok"
        /\ out.path \in DOMAIN dlq
        /\ dlq[out.path] = Stamped(out.invalid_dfs, out.path[3])
        /\ Cardinality({r.id : r \in dlq[out.path]}) = Cardinality(dlq[out.path])

----------------------------------------------------------------------------
(* Properties of glue_etl_job.main (SpecJob)                               *)

\* the rows main handed to the quarantine writer
Quarantined == UNION {job.invalid_dfs[i].rows : i \in DOMAIN job.invalid_dfs}

QuarantineReasons == {r.failure_reason : r \in Quarantined}

\* C4: in every run of main that completes, each record read ends in exactly
\* one of the accepted output and the quarantine output, so that
\* records read == records accepted + records quarantined.
C4_Conservation ==
    pc = "done" =>
        /\ \A r \in table :
              (r.id \in {a.id : a \in job.target}) # (r.id \in {q.id : q \in Quarantined})
        /\ job.read = Cardinality(job.target) + Cardinality(Quarantined)

\* C6: when the quarantine write raises in main, the failure is logged, the
\* error does not leave write_to_dead_letter_queue, main goes on to write the
\* accepted stream, and only a failure of that write keeps the run from its
\* summary and job.commit.
C6_QuarantineFailureNonFatal ==
    (out.writer = "job" /\ SinkRaised) =>
        /\ "Error writing to DLQ" \in out.logged
        /\ ~out.raised
        /\ pc \in {"write_target", "summary", "commit", "done", "failed"}
        /\ pc = "failed" => (job.raised_in = "write_target" /\ job.target_sink = "error")
        /\ pc \in {"summary", "commit", "done"} =>
              (job.target_sink = "ok" /\ job.df.rows \subseteq job.target)
        /\ pc = "done" =>
              (job.committed /\ "ETL Job Completed Successfully!" \in job.summary.lines)

\* the quarantine write raised and the run completed with the accepted
\* stream written
C6_Witness ==
    /\ out.writer = "job" /\ SinkRaised
    /\ pc = "done"
    /\ job.target_sink = "ok"
    /\ job.target # {}

\* the lines the job prints about a failed quarantine write
QuarantineFailureLines ==
    {"Error writing to DLQ", "Continuing job execution despite DLQ write failure"}

\* C8: when the quarantine write fails, the run still reaches Done with the
\* accepted stream written, and its summary flags the quarantine-write
\* failure in one of its lines.
C8_SummaryFlagsQuarantineFailure ==
    (pc = "done" /\ out.writer = "job" /\ SinkRaised) =>
        /\ job.target_sink = "ok"
        /\ job.summary.lines \cap QuarantineFailureLines # {}

\* C9: if writing the accepted stream fails, the error leaves main and the
\* run never reaches its successful end: no summary, no success banner.
C9_TargetFailureFatal ==
    job.target_sink = "error" =>
        /\ pc = "failed"
        /\ job.raised_in = "write_target"
        /\ job.summary = NoSummary
        /\ job.target = {}

\* the target raised on a frame that holds accepted rows
C9_Witness ==
    /\ job.target_sink = "error"
    /\ pc = "failed"
    /\ Count(job.df) > 0


----------------------------------------------------------------------------
(* Properties of invocations that share the sink (SpecInvocations)         *)

\* C11: any two invocations of the job have distinct run_ids, and the
\* quarantine partition an invocation wrote stays as that invocation wrote it
\* whatever the other invocations do.
C11_DistinctRunIds ==
    /\ \A i \in DOMAIN invocations : \A j \in DOMAIN invocations :
          i # j => invocations[i].run_id # invocations[j].run_id
    /\ \A i \in DOMAIN invocations :
          invocations[i].sink = "ok" =>
              /\ invocations[i].path \in DOMAIN dlq
              /\ dlq[invocations[i].path] = invocations[i].rows


----------------------------------------------------------------------------
(* Properties of the derived-column step (SpecJob)                         *)

\* the derived-column step has just run on the rows read from the source
Derived == pc = "filter"

\* the rows of the frame main holds that carry the identity of row r
Images(r) == {x \in job.df.rows : x.id = r.id}

C19_DerivedIdempotent ==
    Derived =>
        \A x \in job.df.rows :
        \A y \in add_derived_columns(SourceFrame(table), now).rows :
            x.id = y.id => \A c \in DerivedColumns \cup MetadataColumns : x[c] = y[c]


----------------------------------------------------------------------------
(* Rules on derived columns that the batch does not carry (SpecRuns)       *)

\* the derived column a rule reads, and the reason it writes
DerivedRules ==
    { [rule |-> "validate_trip_duration", column |-> "trip_duration_minutes",
       reason |-> "invalid_trip_duration"],
      [rule |-> "validate_tip_percentage", column |-> "tip_percentage",
       reason |-> "invalid_tip_percentage"] }

\* C25: when the batch of a run has no trip_duration_minutes (tip_percentage)
\* column, the run does not call the duration (tip) rule, rejects no record
\* with its reason, and the metrics of the checker after the run have no
\* entry for the rule.
C25_SkippedWithoutColumn ==
    RunReturned =>
        \A d \in DerivedRules :
            d.column \notin last.input.cols =>
                /\ \A i \in DOMAIN last.calls : last.calls[i].rule # d.rule
                /\ \A r \in RejectedRows : r.failure_reason # <<d.reason>>
                /\ MetricsKey(d.rule) \notin DOMAIN get_quality_metrics


----------------------------------------------------------------------------
(* The quarantine artifact of a run of main (SpecJob)                      *)

\* main has not reached its quarantine write, or left before it
BeforeQuarantineWrite ==
    \/ pc \in {"start", "derive", "filter", "checks", "write_dlq"}
    \/ pc = "failed" /\ job.raised_in \in {"read", "filter", "checks"}

\* C27: while a run of main has not reached its quarantine write, and after
\* it has aborted before it, the quarantine sink holds nothing and has
\* received no write; after the write, a destination of the run holds all
\* the rejected records of the run.
C27_NoArtifactBeforeWrite ==
    /\ BeforeQuarantineWrite => (dlq = EmptyStore /\ dlq_writes = 0)
    /\ \A p \in DOMAIN dlq : dlq[p] = Stamped(job.invalid_dfs, job.run_id)

\* a run that read records aborted in Step 4, before the quarantine write
C27_Witness ==
    /\ pc = "failed"
    /\ job.raised_in = "checks"
    /\ job.read > 0
    /\ dlq = EmptyStore


----------------------------------------------------------------------------
(* The job bookmark (SpecJob)                                              *)

\* C28: main commits the job bookmark only in a run whose accepted output
\* was written: a run that failed reading the source or writing the target
\* has not committed.
C28_CommitOnlyAfterTargetWrite ==
    job.committed => job.target_sink = "ok"


----------------------------------------------------------------------------
(* The inlined checks of the job against the checker (SpecRuns)            *)

\* the identity and failure_reason of the rows of a list of frames
Verdicts(invalid_dfs) ==
    {<<r.id, r.failure_reason>> :
        r \in UNION {invalid_dfs[i].rows : i \in DOMAIN invalid_dfs}}

\* C29: on a batch that carries the derived columns, run_data_quality_checks
\* accepts the records run_all_checks accepts and gives every rejected
\* record the failure_reason run_all_checks gives it.
C29_SameVerdicts ==
    (RunReturned /\ DerivedColumns \subseteq last.input.cols) =>
        LET c == run_data_quality_checks(last.input, now) IN
        /\ ~c.raised
        /\ Ids(c.df) = Ids(last.valid)
        /\ Verdicts(c.invalid_dfs) = Verdicts(last.invalid_dfs)


----------------------------------------------------------------------------
(* The destination of the checker's quarantine write (SpecClock)           *)

\* the instants from t to u
InstantsBetween(t, u) ==
    {i \in [month : 0..MaxClock, sec : 0..MaxClock] : NotAfter(t, i) /\ NotAfter(i, u)}

\* C30: the year and the month of the destination a call of the checker's
\* writer wrote to are the year and the month of one instant of the call,
\* also when the month turns while the call runs.
C30_PathOfOneInstant ==
    [][(out' # out /\ out'.writer = "checker" /\ out'.wrote) =>
           \E t \in InstantsBetween(now, now') :
               out'.path[1] = YearOf(t) /\ out'.path[2] = MonthOf(t)]_vars
====
